---- MODULE Spec2Model ----
(***************************************************************************)
(* A model of threatkb.py: the ThreatKB HTTP client (ThreatKB), its helper *)
(* layer (ThreatKBHelper) and the command line dispatcher (main).          *)
(*                                                                         *)
(* Python values are tagged records ([kind |-> ...]); a str that holds a   *)
(* JSON serialisation is [kind |-> "str", enc |-> v], any other str is     *)
(* [kind |-> "str", raw |-> "chars"].                                      *)
(* Python dict objects that outlive a call (the mutable default arguments) *)
(* live in `heap`, by identity.                                            *)
(***************************************************************************)
EXTENDS Integers, Sequences, FiniteSets, TLC

\* ---- bounds of the model ----
MaxData == 2        \* longest "data" list of a search answer
MaxComments == 2    \* longest list of comments of an answer
Now == 10           \* the day datetime.now() falls on

MaxArgs == 3        \* most command line words after the command
MaxKeys == 2        \* longest list of keys to filter on
MaxList == 2        \* longest JSON list given to the filter

VARIABLES
    heap,   \* dict objects by identity: the mutable default arguments
    wire,   \* the requests issued by the most recent call or run, in order, each with its answer
    last,   \* the most recent call: operation, client, arguments, exception, return value
    pc,             \* the command line process: "none", "start", "exited"
    argv,           \* sys.argv[1:] of the process
    credentials,    \* the file ~/.threatkb/credentials
    FILTER_KEYS,    \* the module global
    THREATKB_CLI,   \* the module global
    stdout,         \* what the process printed
    exit_status     \* how the process ended

libVars == <<heap, wire, last>>
cliVars == <<pc, argv, credentials, FILTER_KEYS, THREATKB_CLI, stdout, exit_status>>
vars == <<heap, wire, last, pc, argv, credentials, FILTER_KEYS, THREATKB_CLI, stdout, exit_status>>

\* ---- Python values ----
None == [kind |-> "none"]
PyBool(b) == [kind |-> "bool", val |-> b]
PyInt(n) == [kind |-> "int", val |-> n]
PyRaw(s) == [kind |-> "str", raw |-> s]
PyDict(f) == [kind |-> "dict", items |-> f]
PyList(s) == [kind |-> "list", elems |-> s]

EmptyDict == [k \in {} |-> 0]

\* d[k] = v on a dict
Put(d, k, v) == [x \in (DOMAIN d) \cup {k} |-> IF x = k THEN v ELSE d[x]]

\* bool(v) as `if v` evaluates it
Truthy(v) ==
    CASE v.kind = "none" -> FALSE
      [] v.kind = "bool" -> v.val
      [] v.kind = "int" -> v.val # 0
      [] v.kind = "str" -> v # PyRaw("")
      [] v.kind = "dict" -> DOMAIN v.items # {}
      [] v.kind = "list" -> Len(v.elems) > 0

\* str(v) of an int or a str
PyStrOf(v) == IF v.kind = "int" THEN ToString(v.val) ELSE v.raw

\* a "%Y-%m-%dT%H:%M:%S" text of day n, and datetime.strptime of it
DateStr(n) == [kind |-> "str", stamp |-> n]
Strptime(s) == s.stamp

\* json.dumps(v) and json.loads(s); JsonLoadable(s) is FALSE where loads raises
JsonDumps(v) == [kind |-> "str", enc |-> v]
JsonLoadable(s) == s.kind = "str" /\ "enc" \in DOMAIN s
JsonLoads(s) == s.enc

\* ---- exceptions ----
NoExc == "none"
AuthError == "Exception: Invalid authentication token and secret key."

\* ---- clients (ThreatKB.__init__) ----
ThreatKB(token, secret_key, filter_on_keys) ==
    [token |-> token, secret_key |-> secret_key, filter_on_keys |-> filter_on_keys]

Clients ==
    { ThreatKB(PyRaw("tokA"), PyRaw("secA"), PyList(<<>>)),
      ThreatKB(PyRaw("tokB"), PyRaw("secB"), PyList(<<>>)) }

\* ---- the heap of dicts ----
\* uri_params={} of _request and params={} of get are each one object, made when
\* the def statement runs.  A dict made by a caller is Fresh: no later call sees it.
DictIds == {"request.uri_params", "get.params"}
HeapRef(id) == [ref |-> id]
Fresh(d) == [val |-> d]
Deref(h, r) == IF "ref" \in DOMAIN r THEN h[r.ref] ELSE r.val
Store(h, r, d) == IF "ref" \in DOMAIN r THEN [h EXCEPT ![r.ref] = d] ELSE h

\* ---- the server ----
Junk == PyRaw("<html>")
Response(status_code, content) == [status_code |-> status_code, content |-> content]

\* ---- ThreatKB._request ----
\* st is [heap, wire]; the result carries the new st, the exception and the response.
\* session.request(json=body) serialises body with json.dumps unless it is None.
RequestIgnoring401(st, self, method, uri, ref, body, files, resp) ==
    LET uri_params == Put(Put(Deref(st.heap, ref), "token", self.token), "secret_key", self.secret_key)
        req == [client |-> self, method |-> method, uri |-> uri, params |-> uri_params,
                body |-> IF body = None THEN None ELSE JsonDumps(body),
                files |-> files, status_code |-> resp.status_code, content |-> resp.content]
    IN  [st |-> [heap |-> Store(st.heap, ref, uri_params), wire |-> Append(st.wire, req)],
         exc |-> NoExc, ret |-> resp]

RequestKeepingParams(st, self, method, uri, ref, body, files, resp) ==
    LET given == Deref(st.heap, ref)
        p1 == IF "token" \in DOMAIN given THEN given ELSE Put(given, "token", self.token)
        uri_params == IF "secret_key" \in DOMAIN p1 THEN p1 ELSE Put(p1, "secret_key", self.secret_key)
        req == [client |-> self, method |-> method, uri |-> uri, params |-> uri_params,
                body |-> IF body = None THEN None ELSE JsonDumps(body),
                files |-> files, status_code |-> resp.status_code, content |-> resp.content]
    IN  [st |-> [heap |-> Store(st.heap, ref, uri_params), wire |-> Append(st.wire, req)],
         exc |-> IF resp.status_code = 401 THEN AuthError ELSE NoExc, ret |-> resp]

Request(st, self, method, uri, ref, body, files, resp) ==
    LET uri_params == Put(Put(Deref(st.heap, ref), "token", self.token), "secret_key", self.secret_key)
        req == [client |-> self, method |-> method, uri |-> uri, params |-> uri_params,
                body |-> IF body = None THEN None ELSE JsonDumps(body),
                files |-> files, status_code |-> resp.status_code, content |-> resp.content]
    IN  [st |-> [heap |-> Store(st.heap, ref, uri_params), wire |-> Append(st.wire, req)],
         exc |-> IF resp.status_code = 401 THEN AuthError ELSE NoExc, ret |-> resp]

\* endpoint + ('/' + str(id_) if id_ else '')
UriOf(endpoint, id_) == IF Truthy(id_) THEN endpoint \o "/" \o PyStrOf(id_) ELSE endpoint

\* an exception leaves the function: nothing is returned
Raise(r, exc) == [st |-> r.st, exc |-> exc, ret |-> None]
Return(r, v) == [st |-> r.st, exc |-> NoExc, ret |-> v]

\* ---- ThreatKB.get / update / delete / create ----
\* r = self._request(...): its exception leaves the method, else `value` is returned
Answered(r, value) == IF r.exc # NoExc THEN Raise(r, r.exc) ELSE Return(r, value)

get(st, self, endpoint, id_, ref, resp) ==
    Answered(Request(st, self, "GET", UriOf(endpoint, id_), ref, None, EmptyDict, resp), resp.content)

update(st, self, endpoint, id_, json_data, resp) ==
    Answered(Request(st, self, "PUT", UriOf(endpoint, id_), HeapRef("request.uri_params"), json_data, EmptyDict, resp),
             resp.content)

\* '/'.join([endpoint, id_]) raises TypeError unless id_ is a str
delete(st, self, endpoint, id_, resp) ==
    IF id_.kind # "str"
    THEN [st |-> st, exc |-> "TypeError", ret |-> None]
    ELSE Answered(Request(st, self, "DELETE", endpoint \o "/" \o id_.raw, HeapRef("request.uri_params"), None, EmptyDict, resp),
                  PyBool(resp.status_code = 200))

create(st, self, endpoint, json_data, files, resp) ==
    Answered(IF DOMAIN files # {}
             THEN Request(st, self, "POST", endpoint, HeapRef("request.uri_params"), None, files, resp)
             ELSE Request(st, self, "POST", endpoint, HeapRef("request.uri_params"), json_data, EmptyDict, resp),
             IF resp.status_code = 412 THEN None ELSE resp.content)

\* ---- inputs of the library calls ----
Statuses == {200, 401, 412}
Endpoints == {"/c2ips", "releases"}
IdArgs == {None, PyInt(7)}
DeleteIds == {PyRaw("7"), PyInt(7)}
JsonBodies == {PyDict(EmptyDict), PyDict([state |-> PyRaw("Active")])}
FileArgs == {EmptyDict, [file |-> "sample.bin"]}
Contents == {Junk, JsonDumps(PyDict([id |-> PyInt(1), name |-> PyRaw("x")]))}
Responses == {Response(401, Junk)} \cup {Response(s, c) : s \in Statuses \ {401}, c \in Contents}

\* the dicts a caller passes as params: new ones, and ones an earlier call was given
CallerParams ==
    { EmptyDict,
      [short |-> PyInt(0)],
      [token |-> PyRaw("evil")],
      [token |-> PyRaw("tokB"), secret_key |-> PyRaw("secB")] }

Begin == [heap |-> heap, wire |-> <<>>]

\* the record of a call that is over: what was called, on which client, how it ended
Called(op, self, args, r) == [op |-> op, client |-> self, args |-> args, exc |-> r.exc, ret |-> r.ret]

\* params is the default dict of get, or a dict of the caller, which the caller
\* still holds after the call (args.left): it is the object the request was sent with
CallGet ==
    \E self \in Clients, endpoint \in Endpoints, id_ \in IdArgs, resp \in Responses :
      \E ref \in {HeapRef("get.params")} \cup {Fresh(d) : d \in CallerParams} :
        \E r \in {get(Begin, self, endpoint, id_, ref, resp)} :
            /\ heap' = r.st.heap
            /\ wire' = r.st.wire
            /\ UNCHANGED cliVars
            /\ last' = Called("get", self, [params |-> Deref(heap, ref), left |-> r.st.wire[1].params], r)

CallUpdate ==
    \E self \in Clients, endpoint \in Endpoints, id_ \in IdArgs, resp \in Responses :
      \E json_data \in JsonBodies :
        \E r \in {update(Begin, self, endpoint, id_, json_data, resp)} :
            /\ heap' = r.st.heap
            /\ wire' = r.st.wire
            /\ UNCHANGED cliVars
            /\ last' = Called("update", self, [json_data |-> json_data], r)

CallDelete ==
    \E self \in Clients, endpoint \in Endpoints, id_ \in DeleteIds, resp \in Responses :
        \E r \in {delete(Begin, self, endpoint, id_, resp)} :
            /\ heap' = r.st.heap
            /\ wire' = r.st.wire
            /\ UNCHANGED cliVars
            /\ last' = Called("delete", self, [id_ |-> id_], r)

CallCreate ==
    \E self \in Clients, endpoint \in Endpoints, resp \in Responses :
      \E json_data \in JsonBodies, files \in FileArgs :
        \E r \in {create(Begin, self, endpoint, json_data, files, resp)} :
            /\ heap' = r.st.heap
            /\ wire' = r.st.wire
            /\ UNCHANGED cliVars
            /\ last' = Called("create", self, [json_data |-> json_data], r)

\* ---- ThreatKBHelper ----
\* A function that calls another passes its exception on.
\* json.loads(THREATKB_CLI.get(...)): ValueError when the content is no JSON
Loaded(r) ==
    IF r.exc # NoExc THEN r
    ELSE IF ~JsonLoadable(r.ret) THEN Raise(r, "ValueError")
    ELSE Return(r, JsonLoads(r.ret))

get_rule(st, self, rule_id, resp) ==
    Loaded(get(st, self, "/yara_rules", rule_id, HeapRef("get.params"), resp))

\* ids.append(item["id"]) for item in data
RECURSIVE ItemIds(_)
ItemIds(data) == IF data = <<>> THEN <<>> ELSE <<Head(data).items["id"]>> \o ItemIds(Tail(data))

\* the ids of results["data"] if results["total_count"], else the empty list
IdsOfResults(r) ==
    IF r.exc # NoExc THEN r
    ELSE IF Truthy(r.ret.items["total_count"])
         THEN Return(r, PyList(ItemIds(r.ret.items["data"].elems)))
         ELSE Return(r, PyList(<<>>))

get_rule_id_by_name(st, self, name, resp) ==
    IdsOfResults(Loaded(get(st, self, "/yara_rules", None,
                            Fresh([searches |-> PyRaw("{\"name\": \"" \o name \o "\"}")]), resp)))

delete_rule(st, self, rule_id, resp) == delete(st, self, "/yara_rules", rule_id, resp)

delete_rule_batch(st, self, rule_ids, resp) ==
    update(st, self, "/yara_rules/delete", None, PyDict([batch |-> rule_ids]), resp)

\* if ids: return delete_rule_batch(ids); else None is returned
BatchDeleted(r, self, resp2) ==
    IF r.exc # NoExc THEN r
    ELSE IF Truthy(r.ret) THEN delete_rule_batch(r.st, self, r.ret, resp2)
    ELSE Return(r, None)

delete_rule_by_name(st, self, name, resp1, resp2) ==
    BatchDeleted(get_rule_id_by_name(st, self, name, resp1), self, resp2)

\* rule['state'] = 'Discarded' raises TypeError unless rule is a dict;
\* the rule is then sent as json.dumps(rule)
Discarded(r, self, rule_id, resp2) ==
    IF r.exc # NoExc THEN r
    ELSE IF r.ret.kind # "dict" THEN Raise(r, "TypeError")
    ELSE update(r.st, self, "/yara_rules", rule_id,
                JsonDumps(PyDict(Put(r.ret.items, "state", PyRaw("Discarded")))), resp2)

discard_rule(st, self, rule_id, resp1, resp2) ==
    Discarded(get_rule(st, self, rule_id, resp1), self, rule_id, resp2)

\* for item in results["data"]: return item["id"]; falling off the loop returns None
FirstIdOfResults(r) ==
    IF r.exc # NoExc THEN r
    ELSE IF Truthy(r.ret.items["total_count"]) /\ r.ret.items["data"].elems # <<>>
         THEN Return(r, Head(r.ret.items["data"].elems).items["id"])
         ELSE Return(r, None)

get_c2ips_id(st, self, ip, resp) ==
    FirstIdOfResults(Loaded(get(st, self, "/c2ips", None,
                                Fresh([searches |-> PyRaw("{\"ip\":\"" \o ip \o "\"}")]), resp)))

CommentsOfAlways(r, self, resp2) ==
    IF r.exc # NoExc THEN r
    ELSE Loaded(get(r.st, self, "/comments", None,
                    Fresh([entity_type |-> PyInt(3), entity_id |-> r.ret]), resp2))

get_c2ips_commentsAlways(st, self, ip, resp1, resp2) ==
    CommentsOfAlways(get_c2ips_id(st, self, ip, resp1), self, resp2)

\* if id_: return json.loads(get("/comments", params=...)); else None is returned
CommentsOf(r, self, resp2) ==
    IF r.exc # NoExc THEN r
    ELSE IF Truthy(r.ret)
         THEN Loaded(get(r.st, self, "/comments", None,
                         Fresh([entity_type |-> PyInt(3), entity_id |-> r.ret]), resp2))
         ELSE Return(r, None)

get_c2ips_comments(st, self, ip, resp1, resp2) ==
    CommentsOf(get_c2ips_id(st, self, ip, resp1), self, resp2)

\* the loop of squelch_check over the comments left to look at
RECURSIVE AnyRecent(_, _)
AnyRecent(comments, days) ==
    IF comments = <<>> THEN FALSE
    ELSE IF Now - days < Strptime(Head(comments).items["date_modified"]) THEN TRUE
    ELSE AnyRecent(Tail(comments), days)

\* `for comment in comments` raises TypeError when comments is None
Squelched(r, days) ==
    IF r.exc # NoExc THEN r
    ELSE IF r.ret.kind # "list" THEN Raise(r, "TypeError")
    ELSE Return(r, PyBool(AnyRecent(r.ret.elems, days)))

squelch_check(st, self, ip, days, resp1, resp2) ==
    Squelched(get_c2ips_comments(st, self, ip, resp1, resp2), days)

\* ---- inputs of the helper calls ----
ItemKeys == {0, 7}
Names == {"foo"}
Ips == {"10.0.0.1"}
Stamps == {Now - 8, Now - 1}
Windows == {1, 7}
RuleIds == {PyInt(7)}

SeqsUpTo(S, n) == UNION {[1..k -> S] : k \in 0..n}

\* what the server answers to a search: a count and the matching items
SearchResults ==
    UNION { { PyDict([total_count |-> PyInt(n), data |-> PyList(d)]) : n \in {0, Len(d)} } :
              d \in SeqsUpTo({PyDict([id |-> PyInt(i)]) : i \in ItemKeys}, MaxData) }
SearchResponses ==
    {Response(401, Junk), Response(412, Junk)} \cup {Response(200, JsonDumps(v)) : v \in SearchResults}

CommentLists == {PyList(c) : c \in SeqsUpTo({PyDict([date_modified |-> DateStr(t)]) : t \in Stamps}, MaxComments)}
CommentResponses ==
    {Response(401, Junk), Response(412, Junk)} \cup {Response(200, JsonDumps(v)) : v \in CommentLists}

RuleResponses ==
    { Response(401, Junk), Response(412, Junk), Response(200, JsonDumps(PyList(<<>>))),
      Response(200, JsonDumps(PyDict([id |-> PyInt(7), state |-> PyRaw("Active")]))) }

\* The server answers the requests that are made: the answer to a second request
\* is drawn from S when the call, run on the first answer, sends a second request.
NoAnswer == [status_code |-> 0, content |-> None]
SecondAnswers(S, r) == IF Len(r.st.wire) > 1 THEN S ELSE {NoAnswer}

\* the client the helper calls are made on
Helper == ThreatKB(PyRaw("tokA"), PyRaw("secA"), PyList(<<>>))


CallGetRule ==
    \E rule_id \in RuleIds, resp \in RuleResponses :
        \E r \in {get_rule(Begin, Helper, rule_id, resp)} :
            /\ heap' = r.st.heap
            /\ wire' = r.st.wire
            /\ UNCHANGED cliVars
            /\ last' = Called("get_rule", Helper, [rule_id |-> rule_id], r)

CallGetRuleIdByName ==
    \E name \in Names, resp \in SearchResponses :
        \E r \in {get_rule_id_by_name(Begin, Helper, name, resp)} :
            /\ heap' = r.st.heap
            /\ wire' = r.st.wire
            /\ UNCHANGED cliVars
            /\ last' = Called("get_rule_id_by_name", Helper, [name |-> name], r)

CallDeleteRule ==
    \E rule_id \in DeleteIds, resp \in Responses :
        \E r \in {delete_rule(Begin, Helper, rule_id, resp)} :
            /\ heap' = r.st.heap
            /\ wire' = r.st.wire
            /\ UNCHANGED cliVars
            /\ last' = Called("delete_rule", Helper, [rule_id |-> rule_id], r)

CallDeleteRuleBatch ==
    \E resp \in Responses :
      \E rule_ids \in {PyList(<<>>), PyList(<<PyInt(7)>>)} :
        \E r \in {delete_rule_batch(Begin, Helper, rule_ids, resp)} :
            /\ heap' = r.st.heap
            /\ wire' = r.st.wire
            /\ UNCHANGED cliVars
            /\ last' = Called("delete_rule_batch", Helper, [rule_ids |-> rule_ids], r)

CallDeleteRuleByName ==
    \E name \in Names, resp1 \in SearchResponses :
      \E resp2 \in SecondAnswers(Responses, delete_rule_by_name(Begin, Helper, name, resp1, NoAnswer)) :
        \E r \in {delete_rule_by_name(Begin, Helper, name, resp1, resp2)} :
            /\ heap' = r.st.heap
            /\ wire' = r.st.wire
            /\ UNCHANGED cliVars
            /\ last' = Called("delete_rule_by_name", Helper, [name |-> name], r)

CallDiscardRule ==
    \E rule_id \in RuleIds, resp1 \in RuleResponses :
      \E resp2 \in SecondAnswers(Responses, discard_rule(Begin, Helper, rule_id, resp1, NoAnswer)) :
        \E r \in {discard_rule(Begin, Helper, rule_id, resp1, resp2)} :
            /\ heap' = r.st.heap
            /\ wire' = r.st.wire
            /\ UNCHANGED cliVars
            /\ last' = Called("discard_rule", Helper, [rule_id |-> rule_id], r)

CallGetC2ipsId ==
    \E ip \in Ips, resp \in SearchResponses :
        \E r \in {get_c2ips_id(Begin, Helper, ip, resp)} :
            /\ heap' = r.st.heap
            /\ wire' = r.st.wire
            /\ UNCHANGED cliVars
            /\ last' = Called("get_c2ips_id", Helper, [ip |-> ip], r)

CallGetC2ipsComments ==
    \E ip \in Ips, resp1 \in SearchResponses :
      \E resp2 \in SecondAnswers(CommentResponses, get_c2ips_comments(Begin, Helper, ip, resp1, NoAnswer)) :
        \E r \in {get_c2ips_comments(Begin, Helper, ip, resp1, resp2)} :
            /\ heap' = r.st.heap
            /\ wire' = r.st.wire
            /\ UNCHANGED cliVars
            /\ last' = Called("get_c2ips_comments", Helper, [ip |-> ip], r)

CallSquelchCheck ==
    \E ip \in Ips, days \in Windows, resp1 \in SearchResponses :
      \E resp2 \in SecondAnswers(CommentResponses, squelch_check(Begin, Helper, ip, days, resp1, NoAnswer)) :
        \E r \in {squelch_check(Begin, Helper, ip, days, resp1, resp2)} :
            /\ heap' = r.st.heap
            /\ wire' = r.st.wire
            /\ UNCHANGED cliVars
            /\ last' = Called("squelch_check", Helper, [ip |-> ip, days |-> days], r)

NoCall ==
    [op |-> "none", client |-> None, args |-> EmptyDict, exc |-> NoExc, ret |-> None]

\* ---- the credentials file ----
Missing == [state |-> "missing"]
Truncated == [state |-> "empty"]
Stored(token, secret_key, api_host) ==
    [state |-> "stored", token |-> token, secret_key |-> secret_key, api_host |-> api_host]

\* ---- how a process ends ----
Running == [code |-> -1, exc |-> NoExc]
Returned == [code |-> 0, exc |-> NoExc]
SysExit(code) == [code |-> code, exc |-> "SystemExit"]
Uncaught(exc) == [code |-> 1, exc |-> exc]
ConfigError == "Exception: Error. Run configure first."

\* the module is imported and the clients are constructed: no process runs main
NoProcess ==
    /\ pc = "none"
    /\ argv = <<>>
    /\ credentials = Missing
    /\ FILTER_KEYS = None
    /\ THREATKB_CLI = None
    /\ stdout = <<>>
    /\ exit_status = Running

Init ==
    /\ heap = [i \in DictIds |-> EmptyDict]
    /\ wire = <<>>
    /\ last = NoCall
    /\ NoProcess

Next ==
    \/ CallGet
    \/ CallUpdate
    \/ CallDelete
    \/ CallCreate

Spec == Init /\ [][Next]_vars

NextHelper ==
    \/ CallCreate
    \/ CallGetRule
    \/ CallGetRuleIdByName
    \/ CallDeleteRule
    \/ CallDeleteRuleBatch
    \/ CallDeleteRuleByName
    \/ CallDiscardRule
    \/ CallGetC2ipsId
    \/ CallGetC2ipsComments
    \/ CallSquelchCheck

SpecHelper == Init /\ [][NextHelper]_vars

\* ---- ThreatKB.filter_output ----
\* the elements `for obj in o` visits: those of a list, the characters of a str
Elements(o) ==
    IF o.kind = "list" THEN o.elems
    ELSE [i \in 1..Len(o.raw) |-> [kind |-> "str", char |-> i]]

\* [obj[k] for k in keys] raises KeyError or TypeError unless every lookup
\* succeeds; no lookup is made when there are no keys
LookupsSucceed(obj, keys) ==
    \A i \in 1..Len(keys) : obj.kind = "dict" /\ keys[i] \in DOMAIN obj.items

\* dict(zip(keys, [obj[k] for k in keys]))
ZipKeys(obj, keys) == PyDict([k \in {keys[i] : i \in 1..Len(keys)} |-> obj.items[k]])

\* the loop over the elements: results so far, or the exception that ends it
RECURSIVE AppendEach(_, _, _)
AppendEach(elems, keys, results) ==
    IF elems = <<>> THEN [exc |-> NoExc, results |-> results]
    ELSE IF keys.kind # "list" THEN [exc |-> "TypeError", results |-> results]
    ELSE IF ~LookupsSucceed(Head(elems), keys.elems) THEN [exc |-> "KeyError", results |-> results]
    ELSE AppendEach(Tail(elems), keys, Append(results, ZipKeys(Head(elems), keys.elems)))

RECURSIVE AppendEachSkipping(_, _, _)
AppendEachSkipping(elems, keys, results) ==
    IF elems = <<>> THEN [exc |-> NoExc, results |-> results]
    ELSE IF keys.kind # "list" THEN [exc |-> "TypeError", results |-> results]
    ELSE IF ~LookupsSucceed(Head(elems), keys.elems) THEN AppendEachSkipping(Tail(elems), keys, results)
    ELSE AppendEachSkipping(Tail(elems), keys, Append(results, ZipKeys(Head(elems), keys.elems)))

FilterOutputSkipping(self, output) ==
    IF ~JsonLoadable(output) THEN output
    ELSE LET o == JsonLoads(output)
             keys == self.filter_on_keys
         IN  IF o.kind = "dict"
             THEN IF keys.kind = "list" /\ LookupsSucceed(o, keys.elems) THEN ZipKeys(o, keys.elems) ELSE output
             ELSE IF o.kind \notin {"list", "str"} THEN output
             ELSE LET loop == AppendEachSkipping(Elements(o), keys, <<>>)
                  IN  IF loop.exc # NoExc THEN output ELSE PyList(loop.results)

\* every exception (json.loads of a non-str or of text that is no JSON, a failed
\* lookup, iterating what is no iterable) is caught and output is returned
filter_output(self, output) ==
    IF ~JsonLoadable(output) THEN output
    ELSE LET o == JsonLoads(output)
             keys == self.filter_on_keys
         IN  IF o.kind = "dict"
             THEN IF keys.kind = "list" /\ LookupsSucceed(o, keys.elems) THEN ZipKeys(o, keys.elems) ELSE output
             ELSE IF o.kind \notin {"list", "str"} THEN output
             ELSE LET loop == AppendEach(Elements(o), keys, <<>>)
                  IN  IF loop.exc # NoExc THEN output ELSE PyList(loop.results)

\* ---- inputs of filter_output ----
FieldNames == {"id", "name", "extra"}
Objects ==
    { PyDict([k \in D |-> IF k = "id" THEN PyInt(n) ELSE PyRaw(k)]) : D \in SUBSET FieldNames, n \in {1, 2} }
Scalars == {PyInt(5), PyRaw("ab"), PyRaw(""), None}
JsonValues == Objects \cup Scalars \cup {PyList(s) : s \in SeqsUpTo(Objects \cup {PyInt(5), PyList(<<>>)}, MaxList)}
Outputs == {JsonDumps(v) : v \in JsonValues} \cup {Junk, None}
KeyLists == {PyList(k) : k \in SeqsUpTo({"id", "name"}, MaxKeys)} \cup {None}

\* filter_output is about to be called on a client made with the keys
Pending(keys, output) ==
    [op |-> "pending", client |-> ThreatKB(PyRaw("tokA"), PyRaw("secA"), keys),
     args |-> [output |-> output], exc |-> NoExc, ret |-> None]

InitFilter ==
    /\ heap = [i \in DictIds |-> EmptyDict]
    /\ wire = <<>>
    /\ \E keys \in KeyLists, output \in Outputs : last = Pending(keys, output)
    /\ NoProcess

CallFilterOutput ==
    /\ last.op = "pending"
    /\ last' = [last EXCEPT !.op = "filter_output", !.ret = filter_output(last.client, last.args.output)]
    /\ UNCHANGED <<heap, wire>>
    /\ UNCHANGED cliVars

NextFilter == CallFilterOutput

SpecFilter == InitFilter /\ [][NextFilter]_vars

\* ======================= the command line =======================
\* ---- sys.argv ----
Option(keys) == [kind |-> "opt", name |-> "--filter-on-keys", keys |-> keys]
Word(w) == [kind |-> "pos", word |-> w]
Prog == "threatkb"

\* parser.parse_known_args(): the option is taken out, the other words are params.
\* keys holds the pieces of the option's value between its commas.
RECURSIVE Positionals(_)
Positionals(tokens) ==
    IF tokens = <<>> THEN <<>>
    ELSE IF Head(tokens).kind = "pos" THEN <<Head(tokens).word>> \o Positionals(Tail(tokens))
    ELSE Positionals(Tail(tokens))

RECURSIVE FilterKeysOnly(_)
FilterKeysOnly(tokens) ==
    IF tokens = <<>> THEN None
    ELSE LET rest == FilterKeysOnly(Tail(tokens))
         IN  IF rest # None THEN rest
             ELSE IF Head(tokens).kind = "opt" THEN PyList(Head(tokens).keys)
             ELSE None

parse_known_args(tokens) == [filter_keys_only |-> FilterKeysOnly(tokens), params |-> Positionals(tokens)]

\* ---- help: the usage text is returned, nothing is printed, nothing exits ----
help(prog, extra_text) == [kind |-> "str", usage |-> prog, extra |-> extra_text]

\* ---- initialize ----
initialize(file, filter_keys) ==
    IF file.state # "stored"
    THEN [exc |-> ConfigError, cli |-> None]
    ELSE [exc |-> NoExc, cli |-> ThreatKB(file.token, file.secret_key, filter_keys)]

ENTITY_TYPES == [yara_rule |-> PyInt(1), c2dns |-> PyInt(2), c2ip |-> PyInt(3), task |-> PyInt(4)]
EntityTypeOf(artifact) == IF artifact \in DOMAIN ENTITY_TYPES THEN ENTITY_TYPES[artifact] ELSE None

\* ---- the commands: the result carries st, what was printed and the exception ----
Ran(r, printed, exc) == [st |-> r.st, printed |-> printed, exc |-> exc]

\* artifact, artifact_id, file = params[1:] raises unless there are three; help(...)
\* returns its text to nobody, and the print below reads the unbound names
attach(st, cli, params, file_exists, resp) ==
    IF Len(params) - 1 # 3 THEN Ran([st |-> st], <<>>, "UnboundLocalError")
    ELSE IF ~file_exists THEN Ran([st |-> st], <<>>, "IOError")
    ELSE LET files == [entity_type |-> PyRaw(params[2]), entity_id |-> PyRaw(params[3]), file |-> PyRaw(params[4])]
             r == create(st, cli, "file_upload", PyDict(EmptyDict), files, resp)
         IN  IF r.exc # NoExc THEN Ran(r, <<>>, r.exc) ELSE Ran(r, <<r.ret>>, NoExc)

comment(st, cli, params, resp) ==
    IF Len(params) - 1 # 3 THEN Ran([st |-> st], <<>>, "UnboundLocalError")
    ELSE LET json_data == JsonDumps(PyDict([comment |-> PyRaw(params[4]),
                                            entity_type |-> EntityTypeOf(params[2]),
                                            entity_id |-> PyRaw(params[3])]))
             r == create(st, cli, "comments", json_data, EmptyDict, resp)
         IN  IF r.exc # NoExc THEN Ran(r, <<>>, r.exc) ELSE Ran(r, <<r.ret>>, NoExc)

release(st, cli, params, resp) ==
    LET release_id == IF Len(params) >= 2 THEN PyRaw(params[2]) ELSE None
        r == get(st, cli, "releases", release_id, Fresh([short |-> PyInt(0)]), resp)
    IN  IF r.exc # NoExc THEN Ran(r, <<>>, r.exc) ELSE Ran(r, <<r.ret>>, NoExc)

search(st, cli, params, resp) ==
    IF Len(params) - 1 # 2 THEN Ran([st |-> st], <<>>, "UnboundLocalError")
    ELSE LET r == get(st, cli, "search", None, Fresh(Put(EmptyDict, params[2], PyRaw(params[3]))), resp)
         IN  IF r.exc # NoExc THEN Ran(r, <<>>, r.exc) ELSE Ran(r, <<r.ret>>, NoExc)

\* ---- inputs of a run ----
Commands == {"configure", "attach", "comment", "release", "search"}
FirstWords == Commands \cup {"bogus"}
OtherWords == {"yara_rule", "42"}
WordLists == {<<>>} \cup UNION {{<<a>> \o b : b \in [1..k -> OtherWords]} : a \in FirstWords, k \in 0..MaxArgs}
ToWords(ws) == [i \in 1..Len(ws) |-> Word(ws[i])]
Argvs == {ToWords(ws) : ws \in WordLists} \cup {<<Option(<<"id">>)>> \o ToWords(ws) : ws \in WordLists}
Entered == {Stored(PyRaw("tokA"), PyRaw("secA"), "http://127.0.0.1:9000")}
Interpreters == {"python2", "python3", "python3.12"}

\* ---- a process is started ----
Exec ==
    /\ pc \in {"none", "exited"}
    /\ pc' = "start"
    /\ argv' \in Argvs
    /\ FILTER_KEYS' = None
    /\ THREATKB_CLI' = None
    /\ stdout' = <<>>
    /\ exit_status' = Running
    /\ heap' = [i \in DictIds |-> EmptyDict]
    /\ wire' = <<>>
    /\ UNCHANGED <<last, credentials>>

\* ---- main ----
Params == parse_known_args(argv).params

\* FILTER_KEYS once main has passed line 359
FilterKeysSet ==
    LET only == parse_known_args(argv).filter_keys_only
    IN  IF Truthy(only) THEN only ELSE None

\* action = params[0] raises: the usage text is printed and the process exits with 1
MainNoAction ==
    /\ pc = "start"
    /\ Params = <<>>
    /\ pc' = "exited"
    /\ stdout' = <<help(Prog, "")>>
    /\ exit_status' = SysExit(1)
    /\ UNCHANGED <<heap, wire, last, argv, credentials, FILTER_KEYS, THREATKB_CLI>>

\* a command ran after initialize(): what it printed and how the process ends
Dispatched(init, ran) ==
    /\ pc' = "exited"
    /\ FILTER_KEYS' = FilterKeysSet
    /\ THREATKB_CLI' = init.cli
    /\ heap' = ran.st.heap
    /\ wire' = ran.st.wire
    /\ stdout' = ran.printed
    /\ exit_status' = IF ran.exc = NoExc THEN Returned ELSE Uncaught(ran.exc)
    /\ UNCHANGED <<last, argv, credentials>>

\* initialize() raised: the command is not run
NotConfigured ==
    /\ pc' = "exited"
    /\ FILTER_KEYS' = FilterKeysSet
    /\ exit_status' = Uncaught(ConfigError)
    /\ UNCHANGED <<heap, wire, last, argv, credentials, THREATKB_CLI, stdout>>

MainAttach ==
    /\ pc = "start"
    /\ Params # <<>> /\ Params[1] = "attach"
    /\ \E init \in {initialize(credentials, FilterKeysSet)} :
         IF init.exc # NoExc THEN NotConfigured
         ELSE \E file_exists \in BOOLEAN, resp \in Responses :
                Dispatched(init, attach(Begin, init.cli, Params, file_exists, resp))

MainComment ==
    /\ pc = "start"
    /\ Params # <<>> /\ Params[1] = "comment"
    /\ \E init \in {initialize(credentials, FilterKeysSet)} :
         IF init.exc # NoExc THEN NotConfigured
         ELSE \E resp \in Responses :
                Dispatched(init, comment(Begin, init.cli, Params, resp))

MainRelease ==
    /\ pc = "start"
    /\ Params # <<>> /\ Params[1] = "release"
    /\ \E init \in {initialize(credentials, FilterKeysSet)} :
         IF init.exc # NoExc THEN NotConfigured
         ELSE \E resp \in Responses :
                Dispatched(init, release(Begin, init.cli, Params, resp))

MainSearch ==
    /\ pc = "start"
    /\ Params # <<>> /\ Params[1] = "search"
    /\ \E init \in {initialize(credentials, FilterKeysSet)} :
         IF init.exc # NoExc THEN NotConfigured
         ELSE \E resp \in Responses :
                Dispatched(init, search(Begin, init.cli, Params, resp))

\* configure(): initialize() is tried and its error dropped, the three values are
\* read from the console, and the file is written.  Python 2 writes it; Python 3
\* opens it "wb", which empties it, and config.write raises TypeError on the
\* first str; Python 3.12 has no ConfigParser.readfp and raises before the open.
MainConfigure ==
    /\ pc = "start"
    /\ Params # <<>> /\ Params[1] = "configure"
    /\ pc' = "exited"
    /\ FILTER_KEYS' = FilterKeysSet
    /\ THREATKB_CLI' = initialize(credentials, FilterKeysSet).cli
    /\ \E entered \in Entered, python \in Interpreters :
         CASE python = "python2" -> credentials' = entered /\ exit_status' = Returned
           [] python = "python3" -> credentials' = Truncated /\ exit_status' = Uncaught("TypeError")
           [] python = "python3.12" -> credentials' = credentials /\ exit_status' = Uncaught("AttributeError")
    /\ UNCHANGED <<heap, wire, last, argv, stdout>>

\* any other first word: help(sys.argv) returns its text to nobody and main returns
MainUnknown ==
    /\ pc = "start"
    /\ Params # <<>> /\ Params[1] \notin Commands
    /\ pc' = "exited"
    /\ FILTER_KEYS' = FilterKeysSet
    /\ exit_status' = Returned
    /\ UNCHANGED <<heap, wire, last, argv, credentials, THREATKB_CLI, stdout>>

NextCli ==
    \/ Exec
    \/ MainNoAction
    \/ MainConfigure
    \/ MainAttach
    \/ MainComment
    \/ MainRelease
    \/ MainSearch
    \/ MainUnknown

SpecCli == Init /\ [][NextCli]_vars

\* ======================= the claims =======================
BasicOps == {"get", "update", "delete", "create"}

\* C1: every request a get, update, delete or create call sends carries as its
\* token and secret_key parameters the token and secret key of the client the
\* call was made on, whatever the caller's params or an earlier call put there.
C1_OwnCredentialsSent ==
    \A i \in 1..Len(wire) :
        /\ {"token", "secret_key"} \subseteq DOMAIN wire[i].params
        /\ wire[i].params["token"] = wire[i].client.token
        /\ wire[i].params["secret_key"] = wire[i].client.secret_key

\* a get sent with a dict that held another token, the shared default dict of
\* _request holding the token of the other client
C1_Witness ==
    /\ last.op = "get"
    /\ Len(wire) = 1
    /\ "token" \in DOMAIN last.args.params
    /\ last.args.params["token"] # last.client.token
    /\ heap["request.uri_params"] # EmptyDict
    /\ heap["request.uri_params"]["token"] # last.client.token

\* C10 (as claimed): a get, update, delete or create call that reaches the server
\* issues exactly one request, leaves the params dict of the caller as it was
\* and modifies no state shared between calls or clients.
C10_NoLocalStateChanged ==
    [][ (last'.op \in BasicOps /\ last'.exc \in {NoExc, AuthError})
          => /\ Len(wire') = 1
             /\ last'.op = "get" => last'.args.left = last'.args.params
             /\ heap' = heap ]_vars

\* C2: a request answered 401 is the last request of its call, and the call ends
\* in the authentication error without a return value.
C2_AuthErrorAborts ==
    \A i \in 1..Len(wire) :
        wire[i].status_code = 401 =>
            /\ i = Len(wire)
            /\ last.exc = AuthError
            /\ last.ret = None

\* squelch_check whose first request was answered 401: nothing follows it
C2_Witness ==
    /\ last.op \in {"squelch_check", "delete_rule_by_name", "discard_rule", "get_c2ips_comments"}
    /\ Len(wire) = 1
    /\ wire[1].status_code = 401
    /\ last.exc = AuthError

\* what the /c2ips lookup of a call answered
LookupAnswer == JsonLoads(wire[1].content).items
LookupAnswered == Len(wire) >= 1 /\ wire[1].status_code = 200 /\ JsonLoadable(wire[1].content)
LookupMatched == Truthy(LookupAnswer["total_count"]) /\ LookupAnswer["data"].elems # <<>>

\* C8 (as claimed): squelch_check, the server answering every request with 200,
\* returns a boolean: true iff a fetched comment is later than now - days, false
\* otherwise, as when the ip has no comments at all.
C8_SquelchReturnsBoolean ==
    (last.op = "squelch_check" /\ \A i \in 1..Len(wire) : wire[i].status_code = 200) =>
        /\ last.exc = NoExc
        /\ last.ret.kind = "bool"
        /\ last.ret.val =
             ( /\ Len(wire) = 2
               /\ \E c \in 1..Len(JsonLoads(wire[2].content).elems) :
                    Now - last.args.days
                      < Strptime(JsonLoads(wire[2].content).elems[c].items["date_modified"]) )

\* C9: get_c2ips_comments sends the GET on /c2ips first; a GET on /comments
\* follows only when the lookup matched, with entity_type 3 and the first id of
\* the lookup as entity_id; a lookup with zero results returns None and the
\* /comments request is never sent.
C9_CommentsOnlyAfterMatch ==
    last.op = "get_c2ips_comments" =>
        /\ Len(wire) \in {1, 2}
        /\ wire[1].method = "GET" /\ wire[1].uri = "/c2ips"
        /\ Len(wire) = 2 =>
             /\ wire[2].method = "GET" /\ wire[2].uri = "/comments"
             /\ LookupAnswered /\ LookupMatched
             /\ wire[2].params["entity_type"] = PyInt(3)
             /\ wire[2].params["entity_id"] = LookupAnswer["data"].elems[1].items["id"]
        /\ (LookupAnswered /\ ~LookupMatched) =>
             /\ Len(wire) = 1
             /\ last.exc = NoExc
             /\ last.ret = None

\* a lookup that matched nothing: None came back after the one request
C9_Witness ==
    /\ last.op = "get_c2ips_comments"
    /\ LookupAnswered
    /\ LookupAnswer["total_count"] = PyInt(0)
    /\ LookupAnswer["data"].elems = <<>>
    /\ Len(wire) = 1
    /\ last.ret = None

\* ---- the command line claims ----
Exited == pc = "exited"
Action == Params[1]
Initialized == THREATKB_CLI # None

\* C3 (as claimed): with --filter-on-keys given, the JSON result that attach,
\* comment, release or search prints is the response restricted to those keys.
C3_PrintedResultFiltered ==
    ( /\ Exited
      /\ Params # <<>> /\ Action \in {"attach", "comment", "release", "search"}
      /\ FILTER_KEYS # None
      /\ exit_status = Returned
      /\ Len(wire) = 1 /\ wire[1].status_code = 200 )
    => stdout = <<filter_output(THREATKB_CLI, wire[1].content)>>

\* C4 (as claimed): with no first word, or a first word that is no command, the
\* usage help is printed and the process ends on an error path, initialize not
\* having been called and no request sent.
C4_UnknownCommandPrintsUsage ==
    (Exited /\ (Params = <<>> \/ Action \notin Commands)) =>
        /\ stdout = <<help(Prog, "")>>
        /\ exit_status.code # 0
        /\ ~Initialized
        /\ wire = <<>>

\* the number of words attach, comment and search take after the command
Required == [attach |-> 3, comment |-> 3, search |-> 2]

\* C5 (as claimed): attach, comment or search run with another number of words
\* than required prints a usage block of its own and aborts with no request sent.
C5_MissingArgumentsPrintUsage ==
    ( /\ Exited
      /\ Initialized
      /\ Params # <<>> /\ Action \in DOMAIN Required
      /\ Len(Params) - 1 # Required[Action] )
    => /\ Len(stdout) = 1 /\ "usage" \in DOMAIN stdout[1] /\ stdout[1].extra # ""
       /\ exit_status.code # 0
       /\ wire = <<>>

\* C6 (as claimed): comment <artifact> <artifact_id> <text>, artifact one of the
\* four entity types, sends one request, a POST to comments whose JSON body is
\* the object {comment, entity_type, entity_id}, not a string encoding it.
C6_CommentBodyIsObject ==
    ( /\ Exited
      /\ Initialized
      /\ Len(Params) = 4 /\ Action = "comment" /\ Params[2] \in DOMAIN ENTITY_TYPES )
    => /\ Len(wire) = 1
       /\ wire[1].method = "POST"
       /\ wire[1].uri = "comments"
       /\ wire[1].body = JsonDumps(PyDict([comment |-> PyRaw(Params[4]),
                                           entity_type |-> ENTITY_TYPES[Params[2]],
                                           entity_id |-> PyRaw(Params[3])]))

\* ---- the filter claim ----
HasEveryKey(obj, K) == obj.kind = "dict" /\ \A i \in 1..Len(K) : K[i] \in DOMAIN obj.items
Reduced(obj, K) == PyDict([k \in {K[i] : i \in 1..Len(K)} |-> obj.items[k]])
Filtered == last.op = "filter_output" /\ last.client.filter_on_keys.kind = "list"
KeysAsked == last.client.filter_on_keys.elems
OutputGiven == last.args.output
ParsedOutput == JsonLoads(OutputGiven)

\* C7 (as claimed): filter_output never raises; an object holding every key of K
\* gives the mapping of the keys of K; a sequence of such objects gives the
\* sequence of their mappings; every other output is returned unchanged.
C7_FilterOrPassThrough ==
    Filtered =>
        /\ last.exc = NoExc
        /\ last.ret =
             IF JsonLoadable(OutputGiven) /\ HasEveryKey(ParsedOutput, KeysAsked)
             THEN Reduced(ParsedOutput, KeysAsked)
             ELSE IF /\ JsonLoadable(OutputGiven) /\ ParsedOutput.kind = "list"
                     /\ \A i \in 1..Len(ParsedOutput.elems) : HasEveryKey(ParsedOutput.elems[i], KeysAsked)
             THEN PyList([i \in 1..Len(ParsedOutput.elems) |-> Reduced(ParsedOutput.elems[i], KeysAsked)])
             ELSE OutputGiven

\* C7 (amended): as claimed, except that a JSON string is walked as the sequence
\* of its characters (the empty string gives the empty sequence), and that with
\* no key asked every element of a sequence, object or not, gives the empty mapping.
C7_FilterOrPassThroughAmended ==
    Filtered =>
        /\ last.exc = NoExc
        /\ last.ret =
             IF JsonLoadable(OutputGiven) /\ HasEveryKey(ParsedOutput, KeysAsked)
             THEN Reduced(ParsedOutput, KeysAsked)
             ELSE IF /\ JsonLoadable(OutputGiven) /\ ParsedOutput.kind = "list"
                     /\ \A i \in 1..Len(ParsedOutput.elems) :
                          KeysAsked = <<>> \/ HasEveryKey(ParsedOutput.elems[i], KeysAsked)
             THEN PyList([i \in 1..Len(ParsedOutput.elems) |-> Reduced(ParsedOutput.elems[i], KeysAsked)])
             ELSE IF /\ JsonLoadable(OutputGiven) /\ ParsedOutput.kind = "str"
                     /\ (KeysAsked = <<>> \/ ParsedOutput.raw = "")
             THEN PyList([i \in 1..Len(ParsedOutput.raw) |-> PyDict(EmptyDict)])
             ELSE OutputGiven

\* a list whose second object lacks an asked key came back whole
C7_Witness ==
    /\ Filtered
    /\ KeysAsked = <<"id", "name">>
    /\ JsonLoadable(OutputGiven)
    /\ ParsedOutput.kind = "list"
    /\ Len(ParsedOutput.elems) = 2
    /\ HasEveryKey(ParsedOutput.elems[1], KeysAsked)
    /\ ParsedOutput.elems[2].kind = "dict"
    /\ ~HasEveryKey(ParsedOutput.elems[2], KeysAsked)
    /\ last.ret = OutputGiven

====
